---------------------------- MODULE Spec2Model ----------------------------
(***************************************************************************)
(* A model of apollo-cw-asset: the AssetList collection (src/asset_list.rs) *)
(* with its constructors, the AssetInfoKey byte encoding and the checked   *)
(* and unchecked AssetInfo (src/asset_info.rs), the token provisioner     *)
(* (src/token.rs, src/osmosis.rs, src/cw20_asset.rs), and the balance      *)
(* queries and transfer messages of AssetInfo, Asset, AssetList and Token. *)
(*                                                                         *)
(* Strings are sequences of bytes.  Uint128 amounts are naturals in        *)
(* 0..U128Max; TLC has 32-bit integers, so the width of the amount type is *)
(* scaled down to a small maximum and every checked operation compares     *)
(* against that maximum exactly as Uint128::checked_add / checked_sub      *)
(* compare against 2^128-1 and 0.                                          *)
(***************************************************************************)
EXTENDS Integers, Sequences, FiniteSets, TLC

VARIABLES
    list,     \* the AssetList under observation: a sequence of Asset
    before,   \* the list as it was when the last call started
    call,     \* the last call: [op, arg]
    ret,      \* what the last call returned: "Ok", an error kind, or "Panic"
    info,     \* AssetInfoKey round trip: the AssetInfo handed to the encoder
    key,      \* <<>> or <<bytes>>: the AssetInfoKey in hand
    decoded,  \* <<>> or <<r>>: the outcome of decoding `key`
    api,      \* the address validator of the chain: the set of strings it accepts
    chk,      \* the last call on an AssetInfo or an Asset: [op, arg, res]
    store,    \* contract storage: storage key -> <<>> (unset) or <<value>>
    tbefore,  \* the storage as it was when the last provisioner call started
    tcall,    \* the last provisioner call: [op, arg]
    tres,     \* what the last provisioner call returned: [ret, err, resp]
    phase,    \* where the provisioning stands: "Idle", "Requested", "Resolved", "Failed"
    requested \* the keys of the last requests: [keys, resolved]

vars == <<list, before, call, ret, info, key, decoded, api, chk, store, tbefore, tcall, tres, phase,
          requested>>

listVars == <<list, before, call, ret>>
keyVars == <<info, key, decoded>>
infoVars == <<api, chk>>
tokVars == <<store, tbefore, tcall, tres, phase, requested>>

----------------------------------------------------------------------------
(* Bounds of the model *)

\* Largest amount: stands for Uint128::MAX
U128Max == 2
\* Longest argument of add_many / deduct_many and of the constructors
MaxItems == 2
\* Longest payload string of an AssetInfo handed to the key encoder,
\* and longest raw key (in bytes, after the discriminant) handed to from_vec
MaxStrLen == 2
\* Most events in the response of a reply
MaxEvents == 2

----------------------------------------------------------------------------
(* Values *)

Amounts == 0..U128Max

\* "a"
StrA == <<97>>
\* "b"
StrB == <<98>>

Cw20(addr) == [tag |-> "cw20", id |-> addr]
Native(denom) == [tag |-> "native", id |-> denom]

\* The asset kinds the list operations are exercised with: a native denom and
\* a cw20 contract address that share one payload string
ListInfos == {Native(StrA), Cw20(StrA)}

Asset(i, n) == [info |-> i, amount |-> n]

Assets == {Asset(i, n) : i \in ListInfos, n \in Amounts}

RECURSIVE SeqsUpTo(_, _)
SeqsUpTo(S, n) ==
    IF n = 0 THEN {<<>>}
    ELSE LET shorter == SeqsUpTo(S, n - 1)
         IN  shorter \cup {Append(s, x) : s \in {t \in shorter : Len(t) = n - 1}, x \in S}

\* Every AssetList value a caller can hand in as an argument: the type does
\* not exclude zero amounts or repeated kinds
ArgLists == SeqsUpTo(Assets, MaxItems)

Ok(l) == [list |-> l, ret |-> "Ok"]
Err(l, e) == [list |-> l, ret |-> e]

----------------------------------------------------------------------------
(* Uint128 arithmetic *)

\* mutant: wrapping addition
wrapping_add(a, b) == [ok |-> TRUE, val |-> (a + b) % (U128Max + 1)]

checked_add(a, b) ==
    IF a + b > U128Max THEN [ok |-> FALSE, val |-> 0] ELSE [ok |-> TRUE, val |-> a + b]

checked_sub(a, b) ==
    IF a < b THEN [ok |-> FALSE, val |-> 0] ELSE [ok |-> TRUE, val |-> a - b]

----------------------------------------------------------------------------
(* AssetList *)

\* Index of the first element whose info equals i, 0 when there is none
\* (the position Iterator::find stops at)
FindIdx(l, i) ==
    IF \E k \in 1..Len(l) : l[k].info = i
    THEN CHOOSE k \in 1..Len(l) : l[k].info = i /\ \A j \in 1..(k - 1) : l[j].info # i
    ELSE 0

\* AssetList::find: <<>> for None, <<asset>> for Some(asset)
find(l, i) == IF FindIdx(l, i) = 0 THEN <<>> ELSE <<l[FindIdx(l, i)]>>

\* mutant: purge that keeps everything
purge_nothing(l) == l

purge(l) == SelectSeq(l, LAMBDA a : a.amount # 0)

\* mutant: add that never looks for an existing element
add_always_push(l, x) == Ok(purge(Append(l, x)))

\* mutant: add that overwrites the amount of an existing element
add_overwrite(l, x) ==
    LET k == FindIdx(l, x.info)
    IN  IF k = 0 THEN Ok(purge(Append(l, x)))
        ELSE Ok(purge([l EXCEPT ![k].amount = x.amount]))

\* mutant: add that moves the incremented element to the end of the list
add_move_to_end(l, x) ==
    LET k == FindIdx(l, x.info)
    IN  IF k = 0 THEN Ok(purge(Append(l, x)))
        ELSE LET r == checked_add(l[k].amount, x.amount)
             IN  IF ~r.ok THEN Err(l, "Overflow")
                 ELSE Ok(purge(Append(SubSeq(l, 1, k - 1) \o SubSeq(l, k + 1, Len(l)),
                                      Asset(x.info, r.val))))

add(l, x) ==
    LET k == FindIdx(l, x.info)
    IN  IF k = 0 THEN Ok(purge(Append(l, x)))
        ELSE LET r == checked_add(l[k].amount, x.amount)
             IN  IF ~r.ok THEN Err(l, "Overflow")
                 ELSE Ok(purge([l EXCEPT ![k].amount = r.val]))

\* mutant: deduct that purges before it reports a failure
deduct_purge_on_error(l, y) ==
    LET k == FindIdx(l, y.info)
    IN  IF k = 0 THEN Err(purge(l), "NotFound")
        ELSE LET r == checked_sub(l[k].amount, y.amount)
             IN  IF ~r.ok THEN Err(purge(l), "Underflow")
                 ELSE Ok(purge([l EXCEPT ![k].amount = r.val]))

deduct(l, y) ==
    LET k == FindIdx(l, y.info)
    IN  IF k = 0 THEN Err(l, "NotFound")
        ELSE LET r == checked_sub(l[k].amount, y.amount)
             IN  IF ~r.ok THEN Err(l, "Underflow")
                 ELSE Ok(purge([l EXCEPT ![k].amount = r.val]))

RECURSIVE add_many_keep_going(_, _)
\* mutant: add_many that skips a failing element and goes on with the rest
add_many_keep_going(l, xs) ==
    IF xs = <<>> THEN Ok(l)
    ELSE LET r == add(l, Head(xs))
             t == add_many_keep_going(r.list, Tail(xs))
         IN  IF r.ret # "Ok" THEN Err(t.list, r.ret) ELSE t

RECURSIVE add_many(_, _)
add_many(l, xs) ==
    IF xs = <<>> THEN Ok(l)
    ELSE LET r == add(l, Head(xs))
         IN  IF r.ret # "Ok" THEN r ELSE add_many(r.list, Tail(xs))

RECURSIVE deduct_many(_, _)
deduct_many(l, ys) ==
    IF ys = <<>> THEN Ok(l)
    ELSE LET r == deduct(l, Head(ys))
         IN  IF r.ret # "Ok" THEN r ELSE deduct_many(r.list, Tail(ys))

\* The closures handed to apply: the one of tests::applying (amount * 1/2,
\* rounded down) and one that sets every amount to zero
Closures == {"halve", "zero"}

ApplyClosure(f, a) ==
    IF f = "halve" THEN [a EXCEPT !.amount = a.amount \div 2]
    ELSE [a EXCEPT !.amount = 0]

apply(l, f) == [k \in 1..Len(l) |-> ApplyClosure(f, l[k])]

----------------------------------------------------------------------------
(* Constructors of a checked AssetList *)

RECURSIVE from_iter(_, _)
\* impl From<B> for AssetList: every item is folded in with add(..).unwrap();
\* a panic, like an error of check below, produces no list
from_iter(acc, items) ==
    IF items = <<>> THEN Ok(acc)
    ELSE LET r == add(acc, Head(items))
         IN  IF r.ret # "Ok" THEN Err(<<>>, "Panic") ELSE from_iter(r.list, Tail(items))

\* Api::addr_validate, the external validator: v is the set of raw strings it
\* accepts, and an accepted string is returned unchanged as the address
addr_validate(v, raw) == IF raw \in v THEN [ok |-> TRUE, val |-> raw] ELSE [ok |-> FALSE, val |-> raw]

\* mutant: a check that never asks the validator
info_check_unvalidated(v, u) == [ok |-> TRUE, val |-> u]

\* AssetInfoUnchecked::check
info_check(v, u) ==
    IF u.tag = "cw20"
    THEN LET a == addr_validate(v, u.id)
         IN  IF a.ok THEN [ok |-> TRUE, val |-> Cw20(a.val)] ELSE [ok |-> FALSE, val |-> u]
    ELSE [ok |-> TRUE, val |-> Native(u.id)]

\* AssetUnchecked::check
asset_check(v, u) ==
    LET i == info_check(v, u.info)
    IN  [ok |-> i.ok, val |-> Asset(i.val, u.amount)]

RECURSIVE list_check(_, _, _)
\* AssetListUnchecked::check
list_check(v, acc, items) ==
    IF items = <<>> THEN Ok(acc)
    ELSE LET c == asset_check(v, Head(items))
         IN  IF ~c.ok THEN Err(<<>>, "InvalidAddress")
             ELSE LET r == add(acc, c.val)
                  IN  IF r.ret # "Ok" THEN Err(<<>>, r.ret)
                      ELSE list_check(v, r.list, Tail(items))

\* astroport.rs: AstroAssetInfo and AstroAsset
AstroToken(addr) == [tag |-> "token", contract_addr |-> addr]
AstroNativeToken(denom) == [tag |-> "native_token", denom |-> denom]
AstroAsset(i, n) == [info |-> i, amount |-> n]

\* impl From<AstroAssetInfo> for AssetInfo
astro_info_into(i) == IF i.tag = "token" THEN Cw20(i.contract_addr) ELSE Native(i.denom)

\* impl From<&AstroAsset> for Asset
astro_asset_into(a) == Asset(astro_info_into(a.info), a.amount)

\* impl From<Vec<AstroAsset>> for AssetList
from_astro(items) == Ok([k \in 1..Len(items) |-> astro_asset_into(items[k])])

\* The same kinds as ListInfos, in their unchecked and Astroport shapes
AstroInfos == {AstroNativeToken(StrA), AstroToken(StrA)}
AstroItems == SeqsUpTo({AstroAsset(i, n) : i \in AstroInfos, n \in Amounts}, MaxItems)
RawStrings == {StrA, StrB}
Validators == SUBSET RawStrings

----------------------------------------------------------------------------
(* AssetInfoKey *)

U8_MIN == 0
U8_MAX == 255

\* The bytes strings and raw keys are built from: NUL, "a", the two bytes of
\* U+00E9 (0xC3 0xA9) and 0xFF
ByteAlphabet == {0, 97, 169, 195, 255}

RECURSIVE from_utf8_ok(_)
\* String::from_utf8(..).is_ok(), for one- and two-byte sequences (no byte of
\* the alphabet starts a longer one): an ASCII byte, or a lead byte 0xC2..0xDF
\* followed by a continuation byte 0x80..0xBF
from_utf8_ok(bs) ==
    IF bs = <<>> THEN TRUE
    ELSE IF bs[1] < 128 THEN from_utf8_ok(Tail(bs))
    ELSE IF bs[1] >= 194 /\ bs[1] <= 223
         THEN Len(bs) >= 2 /\ bs[2] >= 128 /\ bs[2] <= 191 /\ from_utf8_ok(Tail(Tail(bs)))
    ELSE FALSE

ByteSeqs(n) == SeqsUpTo(ByteAlphabet, n)

\* Rust strings: valid UTF-8 only
Strings == {s \in ByteSeqs(MaxStrLen) : from_utf8_ok(s)}

AssetInfos == {Cw20(s) : s \in Strings} \cup {Native(s) : s \in Strings}

\* mutant: an encoder that uses one discriminant for both variants
encode_one_discriminant(a) == <<U8_MIN>> \o a.id

\* impl From<AssetInfo> for AssetInfoKey
encode(a) == IF a.tag = "cw20" THEN <<U8_MIN>> \o a.id ELSE <<U8_MAX>> \o a.id

\* impl From<AssetInfoKey> for AssetInfo: bytes[0] and bytes[1..] panic on an
\* empty key, from_utf8(..).unwrap() panics on invalid UTF-8, and the match
\* panics on any other discriminant
decode(bytes) ==
    IF Len(bytes) = 0 THEN [ret |-> "Panic", val |-> <<>>]
    ELSE LET first_byte == bytes[1]
             rest == Tail(bytes)
         IN  IF ~from_utf8_ok(rest) THEN [ret |-> "Panic", val |-> <<>>]
             ELSE IF first_byte = U8_MIN THEN [ret |-> "Ok", val |-> <<Cw20(rest)>>]
             ELSE IF first_byte = U8_MAX THEN [ret |-> "Ok", val |-> <<Native(rest)>>]
             ELSE [ret |-> "Panic", val |-> <<>>]

\* KeyDeserialize::from_vec: any byte vector becomes a key
from_vec(value) == value

\* mutant: an equality that looks at the payload only
key_eq_payload(k, other) == Len(k) > 0 /\ Tail(k) = other.id

\* impl PartialEq<AssetInfo> for AssetInfoKey: the key against the key encoded
\* from the AssetInfo, byte for byte (the derived PartialEq of AssetInfoKey)
key_eq(k, other) == k = encode(other)

----------------------------------------------------------------------------
(* The token provisioner: instantiate asks the chain to create a token and
   the reply handlers store what the chain answered *)

REPLY_SAVE_OSMOSIS_DENOM == 14508
REPLY_SAVE_CW20_ADDRESS == 14509

\* The ids a reply can carry: the two of the provisioner and one of another
\* sub-message of the contract
ReplyIds == {REPLY_SAVE_OSMOSIS_DENOM, REPLY_SAVE_CW20_ADDRESS, REPLY_SAVE_CW20_ADDRESS + 1}

\* const TOKEN_ITEM_KEY: Item<String> = Item::new("token_item_key")
TOKEN_ITEM_KEY == "token_item_key"

\* The storage keys a caller names for the finished token
ItemKeys == {"k1", "k2"}

StoreKeys == {TOKEN_ITEM_KEY} \cup ItemKeys

\* The names a request can carry: item_key is any String, the name of the
\* pending-key slot itself included
RequestKeys == ItemKeys \cup {TOKEN_ITEM_KEY}

\* A String as Item<String> stores it (a JSON string, which does not parse as
\* a Token, nor a Token as a String)
StoredString(s) == [tag |-> "String", s |-> s]

\* Item<String>::load: the entry is there and parses as a String
LoadsString(st, k) == st[k] # <<>> /\ st[k][1].tag = "String"

EmptyStore == [k \in StoreKeys |-> <<>>]

\* enum Token
Token_Osmosis(denom) == [tag |-> "Osmosis", id |-> denom]
Token_Cw20(address) == [tag |-> "Cw20", id |-> address]

\* cosmwasm_std Event and Attribute
Attribute(k, v) == [key |-> k, value |-> v]
Event(ty, attributes) == [ty |-> ty, attributes |-> attributes]

\* The events of a reply: instantiate and create_denom events that carry the
\* attribute the handlers look for, the attribute of the other backend, or a
\* contract address the validator may reject
Events ==
    {Event("instantiate", <<Attribute("_contract_address", s)>>) : s \in RawStrings}
    \cup {Event("create_denom", <<Attribute("new_token_denom", s)>>) : s \in RawStrings}
    \cup {Event("instantiate", <<Attribute("new_token_denom", StrA)>>),
          Event("create_denom", <<Attribute("_contract_address", StrA)>>)}

\* SubMsgResult: Ok(SubMsgResponse {events, ..}) or Err(String)
SubMsgOk(events) == [ok |-> TRUE, events |-> events, error |-> ""]
SubMsgErr(error) == [ok |-> FALSE, events |-> <<>>, error |-> error]

SubMsgResults ==
    {SubMsgOk(es) : es \in SeqsUpTo(Events, MaxEvents)}
    \cup {SubMsgErr("out of gas"), SubMsgErr("insufficient funds")}

\* cosmwasm_std Reply
Reply(id, result) == [id |-> id, result |-> result]
Replies == {Reply(id, r) : id \in ReplyIds, r \in SubMsgResults}

\* What a provisioner call computed: the storage it leaves and its result
TokOk(st, resp) == [store |-> st, res |-> [ret |-> "Ok", err |-> "", resp |-> resp]]
TokErr(st, err) == [store |-> st, res |-> [ret |-> "Err", err |-> err, resp |-> <<>>]]

\* Item::save
item_save(st, k, v) == [st EXCEPT ![k] = <<v>>]

\* mutant: an unwrap that takes a failed result for a response without events
unwrap_reply_ignore_error(reply) == [ok |-> TRUE, val |-> reply.result.events, err |-> ""]

\* unwrap_reply: reply.result.into_result().map_err(StdError::generic_err)
unwrap_reply(reply) ==
    IF reply.result.ok THEN [ok |-> TRUE, val |-> reply.result.events, err |-> ""]
    ELSE [ok |-> FALSE, val |-> <<>>, err |-> reply.result.error]

\* events.iter().find(|event| event.ty == ty): the index of the first such
\* event, 0 if there is none
FindEvent(events, ty) ==
    IF \E k \in 1..Len(events) : events[k].ty = ty
    THEN CHOOSE k \in 1..Len(events) :
             /\ events[k].ty = ty
             /\ \A j \in 1..(k - 1) : events[j].ty # ty
    ELSE 0

\* attributes.iter().find(|attr| attr.key == name)
FindAttr(attributes, name) ==
    IF \E k \in 1..Len(attributes) : attributes[k].key = name
    THEN CHOOSE k \in 1..Len(attributes) :
             /\ attributes[k].key = name
             /\ \A j \in 1..(k - 1) : attributes[j].key # name
    ELSE 0

\* The shape the three parsers share: the first event of type ty, its first
\* attribute named name; the two error texts are the parser's own
ParseEvent(events, ty, name, no_event, no_attr) ==
    LET e == FindEvent(events, ty)
    IN  IF e = 0 THEN [ok |-> FALSE, val |-> <<>>, err |-> no_event]
        ELSE LET a == FindAttr(events[e].attributes, name)
             IN  IF a = 0 THEN [ok |-> FALSE, val |-> <<>>, err |-> no_attr]
                 ELSE [ok |-> TRUE, val |-> events[e].attributes[a].value, err |-> ""]

\* parse_contract_addr_from_instantiate_event (the same text in token.rs,
\* cw20_asset.rs and asset_instantiator.rs)
parse_contract_addr_from_instantiate_event(v, events) ==
    LET p == ParseEvent(events, "instantiate", "_contract_address",
                        "cannot find instantiate event",
                        "cannot find _contract_address attribute")
    IN  IF ~p.ok THEN p
        ELSE IF addr_validate(v, p.val).ok THEN p
        ELSE [ok |-> FALSE, val |-> <<>>, err |-> "invalid address"]

\* token.rs parse_osmosis_denom_from_event: it looks for an instantiate event
parse_osmosis_denom_from_event(events) ==
    ParseEvent(events, "instantiate", "new_token_denom",
               "cannot find instantiate event",
               "cannot find _contract_address attribute")

\* osmosis.rs parse_osmosis_denom_from_instantiate_event
parse_osmosis_denom_from_instantiate_event(events) ==
    ParseEvent(events, "create_denom", "new_token_denom",
               "cannot find create_denom event",
               "cannot find new_token_denom attribute")

\* mutant: a save that ignores the item it is given
save_osmosis_denom_first_key(st, events, item) ==
    LET denom == parse_osmosis_denom_from_event(events)
    IN  IF ~denom.ok THEN TokErr(st, denom.err)
        ELSE TokOk(item_save(st, "k1", Token_Osmosis(denom.val)), <<>>)

\* token.rs save_osmosis_denom
save_osmosis_denom(st, events, item) ==
    LET denom == parse_osmosis_denom_from_event(events)
    IN  IF ~denom.ok THEN TokErr(st, denom.err)
        ELSE TokOk(item_save(st, item, Token_Osmosis(denom.val)), <<>>)

\* token.rs save_cw20_address, which takes the unwrapped response
token_save_cw20_address(v, st, events, item) ==
    LET address == parse_contract_addr_from_instantiate_event(v, events)
    IN  IF ~address.ok THEN TokErr(st, address.err)
        ELSE TokOk(item_save(st, item, Token_Cw20(address.val)), <<>>)

\* token.rs reply_save_token: the reply is unwrapped, the pending key is
\* loaded, and only then is the id looked at
reply_save_token(v, st, reply) ==
    LET res == unwrap_reply(reply)
    IN  IF ~res.ok THEN TokErr(st, res.err)
        ELSE IF st[TOKEN_ITEM_KEY] = <<>> THEN TokErr(st, "not found")
        ELSE IF ~LoadsString(st, TOKEN_ITEM_KEY) THEN TokErr(st, "parse error")
        ELSE LET token_item_key == st[TOKEN_ITEM_KEY][1].s
             IN  IF reply.id = REPLY_SAVE_OSMOSIS_DENOM
                 THEN save_osmosis_denom(st, res.val, token_item_key)
                 ELSE IF reply.id = REPLY_SAVE_CW20_ADDRESS
                 THEN token_save_cw20_address(v, st, res.val, token_item_key)
                 ELSE TokErr(st, "invalid reply id")

\* osmosis.rs save_asset
save_asset(st, reply, item) ==
    IF reply.id = REPLY_SAVE_OSMOSIS_DENOM
    THEN LET res == unwrap_reply(reply)
         IN  IF ~res.ok THEN TokErr(st, res.err)
             ELSE LET osmosis_denom == parse_osmosis_denom_from_instantiate_event(res.val)
                  IN  IF ~osmosis_denom.ok THEN TokErr(st, osmosis_denom.err)
                      ELSE TokOk(item_save(st, item, Native(osmosis_denom.val)),
                                 <<Attribute("action", "save_osmosis_denom"),
                                   Attribute("denom", osmosis_denom.val)>>)
    ELSE TokErr(st, "InvalidReplyId")

\* cw20_asset.rs save_cw20_address (asset_instantiator.rs has the same text),
\* with AssetInfo as the stored type: any other id is answered with
\* Ok(Response::new())
save_cw20_address(v, st, reply, item) ==
    IF reply.id = REPLY_SAVE_CW20_ADDRESS
    THEN LET res == unwrap_reply(reply)
         IN  IF ~res.ok THEN TokErr(st, res.err)
             ELSE LET addr == parse_contract_addr_from_instantiate_event(v, res.val)
                  IN  IF ~addr.ok THEN TokErr(st, addr.err)
                      ELSE TokOk(item_save(st, item, Cw20(addr.val)),
                                 <<Attribute("action", "save_osmosis_denom"),
                                   Attribute("addr", addr.val)>>)
    ELSE TokOk(st, <<>>)

\* SubMsg::reply_always
SubMsg_reply_always(msg, id) == [msg |-> msg, id |-> id, reply_on |-> "Always"]

\* enum TokenInitInfo
InitInfo_Osmosis(subdenom) == [tag |-> "Osmosis", subdenom |-> subdenom]
InitInfo_Cw20(label) == [tag |-> "Cw20", label |-> label]

TokenInitInfos == {InitInfo_Osmosis(s) : s \in RawStrings} \cup {InitInfo_Cw20(s) : s \in RawStrings}

\* struct TokenInstantiator
TokenInstantiator(item_key, init_info) == [item_key |-> item_key, init_info |-> init_info]

\* CosmosMsg::Stargate with MsgCreateDenom, and WasmMsg::Instantiate
MsgCreateDenom(subdenom) ==
    [type_url |-> "/osmosis.tokenfactory.v1beta1.MsgCreateDenom",
     sender |-> "env.contract.address", subdenom |-> subdenom]
WasmInstantiate(label) == [type_url |-> "wasm/MsgInstantiateContract", funds |-> <<>>, label |-> label]

\* The sub-message of a backend
CreateMsg(init_info) ==
    IF init_info.tag = "Osmosis"
    THEN SubMsg_reply_always(MsgCreateDenom(init_info.subdenom), REPLY_SAVE_OSMOSIS_DENOM)
    ELSE SubMsg_reply_always(WasmInstantiate(init_info.label), REPLY_SAVE_CW20_ADDRESS)

\* mutant: an instantiate that keeps the key name of a pending request
instantiate_keep_pending(st, self) ==
    IF st[TOKEN_ITEM_KEY] # <<>> THEN TokOk(st, <<CreateMsg(self.init_info)>>)
    ELSE TokOk(item_save(st, TOKEN_ITEM_KEY, StoredString(self.item_key)),
               <<CreateMsg(self.init_info)>>)

\* mutant: an instantiate that does not save the storage key name
instantiate_no_save(st, self) == TokOk(st, <<CreateMsg(self.init_info)>>)

\* TokenInstantiator::instantiate
instantiate(st, self) ==
    TokOk(item_save(st, TOKEN_ITEM_KEY, StoredString(self.item_key)),
          <<CreateMsg(self.init_info)>>)

\* OsmosisDenomInstantiator::instantiate_msg: nothing is saved
osmosis_instantiate_msg(st, subdenom) == TokOk(st, <<CreateMsg(InitInfo_Osmosis(subdenom))>>)

\* Cw20Asset::instantiate_msg: nothing is saved
cw20_instantiate_msg(st, label) == TokOk(st, <<CreateMsg(InitInfo_Cw20(label))>>)

----------------------------------------------------------------------------
(* The state machine *)

Idle == [op |-> "idle", arg |-> <<>>]

\* No call on an AssetInfo or an Asset is on record
NoChk == [op |-> "none", arg |-> <<>>, res |-> <<>>]

\* No request has been made
NoRequest == [keys |-> <<>>, resolved |-> FALSE]

\* No provisioner call is on record
NoRes == [ret |-> "Ok", err |-> "", resp |-> <<>>]

\* Everything but the address validator of the chain
InitRest ==
    /\ list = <<>>
    /\ before = <<>>
    /\ call = Idle
    /\ ret = "Ok"
    /\ info = <<>>
    /\ key = <<>>
    /\ decoded = <<>>
    /\ chk = NoChk
    /\ store = EmptyStore
    /\ tbefore = EmptyStore
    /\ tcall = Idle
    /\ tres = NoRes
    /\ phase = "Idle"
    /\ requested = NoRequest

\* The lists and the keys do not depend on the validator: one is fixed
Init == InitRest /\ api = {StrA}

\* A call on the observed list, from entry to return: r is what the operation
\* computed.  before, call and ret record the call for the caller
Called(op, arg, r) ==
    /\ call = Idle
    /\ before' = list
    /\ call' = [op |-> op, arg |-> arg]
    /\ list' = r.list
    /\ ret' = r.ret
    /\ UNCHANGED <<keyVars, infoVars, tokVars>>

\* The caller has taken the result: the record of the call is dropped (the
\* list is not touched)
Return ==
    /\ call # Idle
    /\ before' = <<>>
    /\ call' = Idle
    /\ ret' = "Ok"
    /\ UNCHANGED <<list, keyVars, infoVars, tokVars>>

\* The constructors build a new list; an empty list is what AssetList::new()
\* returns, so they act where the observed list is empty
Fresh == list = <<>>

New == Called("new", <<>>, Ok(<<>>))

FromIter == Fresh /\ \E items \in ArgLists : Called("from", items, from_iter(<<>>, items))

Check ==
    /\ Fresh
    /\ \E items \in ArgLists, v \in Validators :
           Called("check", [items |-> items, api |-> v], list_check(v, <<>>, items))

FromAstro == Fresh /\ \E items \in AstroItems : Called("from_astro", items, from_astro(items))

Add == \E x \in Assets : Called("add", x, add(list, x))

AddMany == \E xs \in ArgLists : Called("add_many", xs, add_many(list, xs))

Deduct == \E y \in Assets : Called("deduct", y, deduct(list, y))

DeductMany == \E ys \in ArgLists : Called("deduct_many", ys, deduct_many(list, ys))

Purge == Called("purge", <<>>, Ok(purge(list)))

Apply == \E f \in Closures : Called("apply", f, Ok(apply(list, f)))

Encode ==
    /\ chk = NoChk
    /\ \E a \in AssetInfos :
           /\ info' = <<a>>
           /\ key' = <<encode(a)>>
    /\ decoded' = <<>>
    /\ UNCHANGED <<listVars, infoVars, tokVars>>

FromVec ==
    /\ chk = NoChk
    /\ \E value \in ByteSeqs(MaxStrLen + 1) : key' = <<from_vec(value)>>
    /\ info' = <<>>
    /\ decoded' = <<>>
    /\ UNCHANGED <<listVars, infoVars, tokVars>>

Decode ==
    /\ key # <<>>
    /\ decoded = <<>>
    /\ decoded' = <<decode(key[1])>>
    /\ UNCHANGED <<info, key>>
    /\ UNCHANGED <<listVars, infoVars, tokVars>>

\* key == other, for the key in hand and any AssetInfo
KeyEq ==
    /\ chk = NoChk
    /\ key # <<>>
    /\ \E other \in AssetInfos :
           chk' = [op |-> "key_eq", arg |-> other, res |-> [ok |-> key_eq(key[1], other)]]
    /\ UNCHANGED <<listVars, keyVars, api, tokVars>>

\* The five mutators of C1, from the empty list
NextMut == Add \/ AddMany \/ Deduct \/ DeductMany \/ Purge \/ Return

SpecMut == Init /\ [][NextMut]_vars

\* Every operation on a list, constructors included
Next ==
    \/ New \/ FromIter \/ Check \/ FromAstro
    \/ Add \/ AddMany \/ Deduct \/ DeductMany \/ Purge \/ Apply
    \/ Return

Spec == Init /\ [][Next]_vars

\* The key encoding
\* The caller has taken the result of a call on an AssetInfo or an Asset: the
\* record of the call is dropped
ChkReturn ==
    /\ chk # NoChk
    /\ chk' = NoChk
    /\ UNCHANGED <<listVars, keyVars, api, tokVars>>

NextKey == Encode \/ FromVec \/ Decode \/ KeyEq \/ ChkReturn

SpecKey == Init /\ [][NextKey]_vars

----------------------------------------------------------------------------
(* Helpers of the properties *)

\* The amount a list holds for a kind: that of the element find returns, or 0
Held(l, i) == IF FindIdx(l, i) = 0 THEN 0 ELSE l[FindIdx(l, i)].amount

HasZero(l) == \E k \in 1..Len(l) : l[k].amount = 0

NoZero(l) == ~HasZero(l)

NoDuplicates(l) == \A i, j \in 1..Len(l) : i # j => l[i].info # l[j].info

\* The sequence without its k-th element (itself when k = 0)
RemoveAt(l, k) == IF k = 0 THEN l ELSE SubSeq(l, 1, k - 1) \o SubSeq(l, k + 1, Len(l))

NonZero(l) == SelectSeq(l, LAMBDA a : a.amount # 0)

\* The state add_many / deduct_many should be in after the first n elements
\* of xs, each applied with the single-asset operation, while all succeed
RECURSIVE AfterPrefix(_, _, _, _)
AfterPrefix(op, l, xs, n) ==
    IF n = 0 THEN Ok(l)
    ELSE LET p == AfterPrefix(op, l, xs, n - 1)
         IN  IF p.ret # "Ok" THEN p
             ELSE IF op = "add_many" THEN add(p.list, xs[n]) ELSE deduct(p.list, xs[n])

----------------------------------------------------------------------------
(* C1..C10 *)

\* C1: starting from the empty list, after any sequence of add, add_many,
\* deduct, deduct_many and purge calls, successful or failed, no two elements
\* of the list have the same AssetInfo.  (SpecMut)
C1_NoDuplicateInfo == NoDuplicates(list)

\* add_many was handed a list that repeats a kind, and merged it
C1_Witness ==
    /\ call.op = "add_many"
    /\ ret = "Ok"
    /\ Len(call.arg) = 2
    /\ call.arg[1].info = call.arg[2].info
    /\ call.arg[1].amount > 0
    /\ call.arg[2].amount > 0
    /\ Len(list) = 2

\* C2: after every successful add or deduct the list holds no element whose
\* amount is zero, whatever it held before the call.
C2_NoZeroAfterAddDeduct ==
    (call.op \in {"add", "deduct"} /\ ret = "Ok") => NoZero(list)

\* a successful add on a list that held a zero amount of another kind
C2_Witness ==
    /\ call.op = "add"
    /\ ret = "Ok"
    /\ \E k \in 1..Len(before) : before[k].amount = 0 /\ before[k].info # call.arg.info
    /\ list # <<>>

\* C3 as claimed: for every list and every asset x whose addition does not
\* overflow, after add(x) find(x.info) is some element and its amount is the
\* amount held before (or 0) plus x.amount.
C3_AddExact_Claimed ==
    (call.op = "add" /\ Held(before, call.arg.info) + call.arg.amount <= U128Max)
        => /\ find(list, call.arg.info) # <<>>
           /\ find(list, call.arg.info)[1].amount
                  = Held(before, call.arg.info) + call.arg.amount

\* C3 as amended: the same, for a sum that is not zero (a zero sum is purged).
C3_AddExact ==
    (/\ call.op = "add"
     /\ Held(before, call.arg.info) + call.arg.amount <= U128Max
     /\ Held(before, call.arg.info) + call.arg.amount > 0)
        => /\ ret = "Ok"
           /\ find(list, call.arg.info) # <<>>
           /\ find(list, call.arg.info)[1].amount
                  = Held(before, call.arg.info) + call.arg.amount

\* an add that incremented a non-zero amount by a non-zero amount
C3_Witness ==
    /\ call.op = "add"
    /\ ret = "Ok"
    /\ Held(before, call.arg.info) > 0
    /\ call.arg.amount > 0
    /\ Held(list, call.arg.info) = Held(before, call.arg.info) + call.arg.amount

\* C4: when the list holds an element for x.info and its amount plus x.amount
\* exceeds the maximum, add(x) fails with an overflow error and leaves the
\* list exactly as it was.
C4_AddOverflow ==
    (/\ call.op = "add"
     /\ FindIdx(before, call.arg.info) # 0
     /\ Held(before, call.arg.info) + call.arg.amount > U128Max)
        => (ret = "Overflow" /\ list = before)

\* an add that overflowed, on a list that also held a zero amount
C4_Witness ==
    /\ call.op = "add"
    /\ ret = "Overflow"
    /\ HasZero(before)

\* C5: deduct(y) fails with a not-found error when no element has y.info,
\* and with an underflow error when the element for y.info holds less than
\* y.amount; the list is identical before and after either failure.
C5_DeductFailures ==
    call.op = "deduct" =>
        /\ FindIdx(before, call.arg.info) = 0 => (ret = "NotFound" /\ list = before)
        /\ (FindIdx(before, call.arg.info) # 0
               /\ Held(before, call.arg.info) < call.arg.amount)
              => (ret = "Underflow" /\ list = before)

\* a deduct that underflowed, on a list that also held a zero amount
C5_Witness ==
    /\ call.op = "deduct"
    /\ ret = "Underflow"
    /\ HasZero(before)
    /\ list = before

\* C6 as claimed: for every list holding an element with amount n, deduct of
\* the same AssetInfo and amount n succeeds, and find of that AssetInfo then
\* returns none.
C6_DeductAll_Claimed ==
    (/\ call.op = "deduct"
     /\ FindIdx(before, call.arg.info) # 0
     /\ Held(before, call.arg.info) = call.arg.amount)
        => (ret = "Ok" /\ find(list, call.arg.info) = <<>>)

\* C7: add_many and deduct_many apply the single-asset operation from left to
\* right and stop at the first failure: on success the list is the state
\* after all elements; when element i fails, the call returns that element's
\* error and the list is the state after elements 1..i-1.
C7_BulkStopsAtFirstFailure ==
    call.op \in {"add_many", "deduct_many"} =>
        LET xs == call.arg
            n == Len(xs)
            S(k) == AfterPrefix(call.op, before, xs, k)
        IN  IF S(n).ret = "Ok"
            THEN ret = "Ok" /\ list = S(n).list
            ELSE \E i \in 1..n :
                    /\ S(i - 1).ret = "Ok"
                    /\ S(i).ret # "Ok"
                    /\ ret = S(i).ret
                    /\ list = S(i - 1).list

\* add_many whose first element was merged and whose second overflowed
C7_Witness ==
    /\ call.op = "add_many"
    /\ ret = "Overflow"
    /\ Len(call.arg) = 2
    /\ list # before
    /\ list = add(before, call.arg[1]).list

\* Frame of add(x) with the entry for x.info present afterwards: some place p
\* of the list holds x.info, the other elements are the non-zero other
\* elements of the list before, in their order, an entry that existed at k
\* has as many elements before it as it had non-zero ones before, and an
\* entry that did not exist is the last element.
AddFrameWithEntry ==
    LET k == FindIdx(before, call.arg.info)
    IN  \E p \in 1..Len(list) :
            /\ list[p].info = call.arg.info
            /\ RemoveAt(list, p) = NonZero(RemoveAt(before, k))
            /\ k # 0 => p - 1 = Len(NonZero(SubSeq(before, 1, k - 1)))
            /\ k = 0 => p = Len(list)

\* C8 as claimed: a successful add(x) changes only the entry for x.info; an
\* existing entry keeps its position and a new entry is appended at the end.
C8_AddFrame_Claimed == (call.op = "add" /\ ret = "Ok") => AddFrameWithEntry

\* C8 as amended: that holds when the amount held before (or 0) plus x.amount
\* is not zero; when it is zero the entry is absent and the list is the
\* non-zero other elements in their order.
C8_AddFrame ==
    (call.op = "add" /\ ret = "Ok") =>
        IF Held(before, call.arg.info) + call.arg.amount > 0
        THEN AddFrameWithEntry
        ELSE list = NonZero(RemoveAt(before, FindIdx(before, call.arg.info)))

\* an add that incremented an entry that has a non-zero element after it
C8_Witness ==
    /\ call.op = "add"
    /\ ret = "Ok"
    /\ call.arg.amount > 0
    /\ FindIdx(before, call.arg.info) # 0
    /\ FindIdx(before, call.arg.info) < Len(before)
    /\ before[Len(before)].amount > 0
    /\ Held(before, call.arg.info) > 0

\* The items of a constructor call, as the Assets they are converted to
ItemsAsAssets ==
    IF call.op = "from" THEN call.arg
    ELSE IF call.op = "check"
         THEN [k \in 1..Len(call.arg.items) |->
                  asset_check(call.arg.api, call.arg.items[k]).val]
    ELSE [k \in 1..Len(call.arg) |-> astro_asset_into(call.arg[k])]

\* C9 as claimed: every construction of a checked AssetList from a sequence
\* (AssetList::from, AssetListUnchecked::check, From<Vec<AstroAsset>>) folds
\* the items in with add, so no two elements share an AssetInfo and each
\* element's amount is the sum of the input amounts of its AssetInfo.
C9_ConstructorsFold_Claimed ==
    (call.op \in {"from", "check", "from_astro"} /\ ret = "Ok")
        => /\ list = AfterPrefix("add_many", <<>>, ItemsAsAssets, Len(ItemsAsAssets)).list
           /\ NoDuplicates(list)

\* C10: for every AssetInfo a, decoding the key encoded from a yields a.
C10_KeyRoundTrip ==
    (info # <<>> /\ decoded # <<>>) => decoded[1] = [ret |-> "Ok", val |-> info]

\* a native AssetInfo with a two-byte character in its denom was encoded and
\* the key decoded
C10_Witness ==
    /\ info # <<>>
    /\ decoded # <<>>
    /\ key = <<encode(info[1])>>
    /\ info[1].tag = "native"
    /\ Len(info[1].id) = 2
    /\ info[1].id[1] > 127

----------------------------------------------------------------------------
(* Decoding of keys that no AssetInfo encodes to *)

\* A key no AssetInfo encodes to: empty, a first byte that is neither 0x00
\* nor 0xFF, or a payload that is not valid UTF-8
MalformedKey(bytes) ==
    \/ Len(bytes) = 0
    \/ bytes[1] \notin {U8_MIN, U8_MAX}
    \/ ~from_utf8_ok(Tail(bytes))

\* C11 as claimed: decoding a key whose first byte is neither 0x00 nor 0xFF,
\* whose payload is not valid UTF-8, or which is empty, returns a MalformedKey
\* error and never panics.
C11_DecodeMalformed_Claimed ==
    (key # <<>> /\ decoded # <<>>)
        => /\ decoded[1].ret # "Panic"
           /\ MalformedKey(key[1]) => decoded[1].ret = "MalformedKey"

\* C12: the key encoded from an AssetInfo a equals an AssetInfo b (by the
\* key's equality with an AssetInfo) exactly when a = b; so a contract variant
\* and a native variant with the same payload have different keys.
C12_KeyInjective ==
    (info # <<>> /\ chk.op = "key_eq") => (chk.res.ok <=> info[1] = chk.arg)

\* the key of a contract AssetInfo was compared with the native AssetInfo of
\* the same payload, and with the AssetInfo it was encoded from
C12_Witness ==
    /\ info # <<>>
    /\ key = <<encode(info[1])>>
    /\ chk.op = "key_eq"
    /\ info[1].tag = "cw20"
    /\ chk.arg = Native(info[1].id)
    /\ ~chk.res.ok

----------------------------------------------------------------------------
(* Checked and unchecked AssetInfo and Asset: constructors, check, and the
   conversions back to the unchecked types *)

\* The strings a caller hands in as a contract address or a denom: the empty
\* string and the two raw strings the validators range over
UncheckedStrings == RawStrings \cup {<<>>}

UncheckedInfos == {Cw20(s) : s \in UncheckedStrings} \cup {Native(s) : s \in UncheckedStrings}

UncheckedAssets == {Asset(u, n) : u \in UncheckedInfos, n \in Amounts}

\* AssetInfo::native
info_native(denom) == Native(denom)

\* AssetInfo::cw20 and impl From<Addr> for AssetInfo
info_cw20(contract_addr) == Cw20(contract_addr)

\* AssetInfo::from_str
from_str(v, s) ==
    LET a == addr_validate(v, s)
    IN  IF a.ok THEN info_cw20(a.val) ELSE info_native(s)

\* mutant: a conversion that turns every AssetInfo into a native one
info_into_unchecked_native(a) == Native(a.id)

\* impl From<AssetInfo> for AssetInfoUnchecked
info_into_unchecked(a) == IF a.tag = "cw20" THEN Cw20(a.id) ELSE Native(a.id)

\* impl From<Asset> for AssetUnchecked
asset_into_unchecked(x) == Asset(info_into_unchecked(x.info), x.amount)

\* impl From<AssetList> for AssetListUnchecked
list_into_unchecked(l) == [k \in 1..Len(l) |-> asset_into_unchecked(l[k])]

\* A call on an AssetInfo, an Asset or a list value, from entry to return
Checked(op, arg, res) ==
    /\ chk = NoChk
    /\ chk' = [op |-> op, arg |-> arg, res |-> res]
    /\ UNCHANGED <<listVars, keyVars, api, tokVars>>

InfoNative ==
    \E denom \in UncheckedStrings :
        Checked("native", denom, [ok |-> TRUE, val |-> info_native(denom)])

\* An Addr in the caller's hands is a string the validator returned
InfoCw20 ==
    \E contract_addr \in api :
        Checked("cw20", contract_addr, [ok |-> TRUE, val |-> info_cw20(contract_addr)])

FromStr ==
    \E s \in UncheckedStrings :
        Checked("from_str", s, [ok |-> TRUE, val |-> from_str(api, s)])

InfoCheck == \E u \in UncheckedInfos : Checked("info_check", u, info_check(api, u))

AssetCheck == \E u \in UncheckedAssets : Checked("asset_check", u, asset_check(api, u))

\* a checked value is converted to its unchecked type and checked again
InfoRoundTrip ==
    \E a \in UncheckedInfos :
        Checked("info_round_trip", a, info_check(api, info_into_unchecked(a)))

AssetRoundTrip ==
    \E x \in UncheckedAssets :
        Checked("asset_round_trip", x, asset_check(api, asset_into_unchecked(x)))

ListRoundTrip ==
    \E l \in ArgLists :
        Checked("list_round_trip", l, list_check(api, <<>>, list_into_unchecked(l)))

\* a key read from storage is decoded: from_vec, then AssetInfo::from
InfoFromKey ==
    \E value \in ByteSeqs(MaxStrLen + 1) :
        Checked("from_key", value, decode(from_vec(value)))

\* Any validator of the two raw strings
InitInfo == InitRest /\ api \in Validators

NextInfo ==
    \/ InfoNative \/ InfoCw20 \/ FromStr \/ InfoCheck \/ AssetCheck
    \/ InfoRoundTrip \/ AssetRoundTrip \/ ListRoundTrip
    \/ InfoFromKey
    \/ ChkReturn

SpecInfo == InitInfo /\ [][NextInfo]_vars

----------------------------------------------------------------------------
(* Claims on check, the validity of checked values and the round trip *)

\* C13: check on an unchecked contract AssetInfo fails exactly when the
\* validator rejects the raw string (the empty string included) and otherwise
\* returns the contract variant with the validated address; check on an
\* unchecked native AssetInfo always succeeds with the same denom.
C13_InfoCheck ==
    chk.op = "info_check"
        => IF chk.arg.tag = "cw20"
           THEN /\ chk.res.ok <=> chk.arg.id \in api
                /\ chk.arg.id = <<>> => ~chk.res.ok
                /\ chk.res.ok => chk.res.val = Cw20(chk.arg.id)
           ELSE /\ chk.res.ok
                /\ chk.res.val = Native(chk.arg.id)

\* a validator that accepts "a" and rejects "b" was asked for "b": the check
\* of the contract AssetInfo failed
C13_Witness ==
    /\ chk.op = "info_check"
    /\ chk.arg = Cw20(StrB)
    /\ api = {StrA}
    /\ ~chk.res.ok

\* The invariant of a checked AssetInfo: a native denom is not empty, a
\* contract address is one the validator accepts
ValidInfo(i) ==
    /\ i.tag = "native" => i.id # <<>>
    /\ i.tag = "cw20" => i.id \in api

\* C14 as claimed: every checked AssetInfo the library produces (constructors,
\* check, from_str, key decoding) has a non-empty denom if native and an
\* address that passed the validator if contract.
C14_CheckedInfoValid_Claimed ==
    /\ (chk.op \in {"native", "cw20", "from_str", "info_check"} /\ chk.res.ok)
           => ValidInfo(chk.res.val)
    /\ (chk.op = "from_key" /\ chk.res.ret = "Ok") => ValidInfo(chk.res.val[1])

\* the part of C14 the code does keep: check and from_str return a contract
\* AssetInfo only for an address the validator accepted
C14_ContractFromCheckValidated ==
    (chk.op \in {"cw20", "from_str", "info_check"} /\ chk.res.ok /\ chk.res.val.tag = "cw20")
        => chk.res.val.id \in api

\* Every contract address of the value is one the validator accepts
InfoAccepted(i) == i.tag = "cw20" => i.id \in api
ListAccepted(l) == \A k \in 1..Len(l) : InfoAccepted(l[k].info)

\* C15 as claimed: for every checked AssetList L whose contract addresses the
\* validator accepts, converting L to its unchecked form and calling check
\* returns a list equal to L; the same holds for an Asset and an AssetInfo.
C15_RoundTrip_Claimed ==
    /\ (chk.op = "list_round_trip" /\ ListAccepted(chk.arg)) => chk.res = Ok(chk.arg)
    /\ (chk.op = "asset_round_trip" /\ InfoAccepted(chk.arg.info))
           => chk.res = [ok |-> TRUE, val |-> chk.arg]
    /\ (chk.op = "info_round_trip" /\ InfoAccepted(chk.arg))
           => chk.res = [ok |-> TRUE, val |-> chk.arg]

\* C15 (amended): the round trip of a list whose contract addresses the
\* validator accepts returns what folding its elements into an empty list with
\* add returns (the overflow error included); that is L itself when L has no
\* zero amount and no repeated AssetInfo.  The round trip of an Asset and of
\* an AssetInfo returns the value it started from.
C15_RoundTrip ==
    /\ (chk.op = "list_round_trip" /\ ListAccepted(chk.arg))
           => LET folded == add_many(<<>>, chk.arg)
              IN  /\ chk.res.ret = folded.ret
                  /\ chk.res.ret = "Ok" => chk.res.list = folded.list
                  /\ (NoZero(chk.arg) /\ NoDuplicates(chk.arg)) => chk.res = Ok(chk.arg)
    /\ (chk.op = "asset_round_trip" /\ InfoAccepted(chk.arg.info))
           => chk.res = [ok |-> TRUE, val |-> chk.arg]
    /\ (chk.op = "info_round_trip" /\ InfoAccepted(chk.arg))
           => chk.res = [ok |-> TRUE, val |-> chk.arg]

\* a list of a contract token and a native coin, both with non-zero amounts,
\* came back from the round trip as it was
C15_Witness ==
    /\ chk.op = "list_round_trip"
    /\ Len(chk.arg) = 2
    /\ chk.arg[1].info.tag = "cw20"
    /\ ListAccepted(chk.arg)
    /\ NoZero(chk.arg)
    /\ NoDuplicates(chk.arg)
    /\ chk.res = Ok(chk.arg)

----------------------------------------------------------------------------
(* The provisioner's calls *)

\* The phase of the provisioning after a call: instantiate is the request,
\* and the return of reply_save_token for a reply that carries a tag of the
\* provisioner ends a request, with a result or with an error
PhaseAfter(op, arg, res) ==
    IF op = "instantiate" THEN "Requested"
    ELSE IF /\ op = "reply_save_token"
            /\ phase = "Requested"
            /\ arg.reply.id \in {REPLY_SAVE_OSMOSIS_DENOM, REPLY_SAVE_CW20_ADDRESS}
         THEN IF res.ret = "Ok" THEN "Resolved" ELSE "Failed"
    ELSE phase

\* The keys requested: the key of the last request and, if no reply was
\* handled between the two, the key of the request before it; resolved says
\* that a reply has been handled since the last request
RequestedAfter(op, arg) ==
    IF op = "instantiate"
    THEN [keys |-> IF requested.resolved \/ requested.keys = <<>>
                   THEN <<arg.item_key>>
                   ELSE <<requested.keys[Len(requested.keys)], arg.item_key>>,
          resolved |-> FALSE]
    ELSE IF op = "reply_save_token" THEN [requested EXCEPT !.resolved = TRUE]
    ELSE requested

\* A call of the provisioner, from entry to return: r is what it computed; the
\* phase the call started in is kept with the call
TokCalled(op, arg, r) ==
    /\ tcall = Idle
    /\ tbefore' = store
    /\ tcall' = [op |-> op, arg |-> arg, phase |-> phase, requested |-> requested]
    /\ store' = r.store
    /\ tres' = r.res
    /\ phase' = PhaseAfter(op, arg, r.res)
    /\ requested' = RequestedAfter(op, arg)
    /\ UNCHANGED <<listVars, keyVars, infoVars>>

\* The contract has returned to the chain: the record of the call is dropped
TokReturn ==
    /\ tcall # Idle
    /\ tbefore' = EmptyStore
    /\ tcall' = Idle
    /\ tres' = NoRes
    /\ UNCHANGED <<store, phase, requested, listVars, keyVars, infoVars>>

\* A contract is built on one of the two variants of the provisioner, and its
\* storage holds the values of that variant only: Item<Token> entries and the
\* pending-key slot for token.rs, Item<AssetInfo> entries for osmosis.rs and
\* cw20_asset.rs
HoldsOnly(st, tags) == \A k \in ItemKeys : st[k] # <<>> => st[k][1].tag \in tags
TokenStorage == HoldsOnly(store, {"Osmosis", "Cw20"})
AssetInfoStorage == store[TOKEN_ITEM_KEY] = <<>> /\ HoldsOnly(store, {"native", "cw20"})

Instantiate ==
    /\ TokenStorage
    /\ \E item_key \in RequestKeys, init_info \in TokenInitInfos :
           LET self == TokenInstantiator(item_key, init_info)
           IN  TokCalled("instantiate", self, instantiate(store, self))

OsmosisInstantiateMsg ==
    /\ AssetInfoStorage
    /\ \E subdenom \in RawStrings :
        TokCalled("osmosis_instantiate_msg", subdenom, osmosis_instantiate_msg(store, subdenom))

Cw20InstantiateMsg ==
    /\ AssetInfoStorage
    /\ \E label \in RawStrings :
        TokCalled("cw20_instantiate_msg", label, cw20_instantiate_msg(store, label))

ReplySaveToken ==
    /\ TokenStorage
    /\ \E reply \in Replies :
        TokCalled("reply_save_token", [reply |-> reply], reply_save_token(api, store, reply))

SaveAsset ==
    /\ AssetInfoStorage
    /\ \E reply \in Replies, item \in ItemKeys :
        TokCalled("save_asset", [reply |-> reply, item |-> item], save_asset(store, reply, item))

SaveCw20Address ==
    /\ AssetInfoStorage
    /\ \E reply \in Replies, item \in ItemKeys :
        TokCalled("save_cw20_address", [reply |-> reply, item |-> item],
                  save_cw20_address(api, store, reply, item))

NextToken ==
    \/ Instantiate \/ OsmosisInstantiateMsg \/ Cw20InstantiateMsg
    \/ ReplySaveToken \/ SaveAsset \/ SaveCw20Address
    \/ TokReturn

SpecToken == Init /\ [][NextToken]_vars

----------------------------------------------------------------------------
(* Claims on the token provisioner *)

\* The one sub-message of a request: it asks for a reply in every outcome and
\* carries the tag of its backend
OneSubMsg(resp, id) ==
    /\ Len(resp) = 1
    /\ resp[1].reply_on = "Always"
    /\ resp[1].id = id

\* C16: TokenInstantiator::instantiate saves the request's storage key name in
\* the pending-key slot and returns exactly one sub-message that asks for a
\* reply in every outcome, tagged 14508 for the ledger-denom backend and 14509
\* for the contract-token backend; the two tags differ and depend on the
\* backend only (instantiate_msg of either backend tags its sub-message alike).
C16_Request ==
    /\ REPLY_SAVE_OSMOSIS_DENOM # REPLY_SAVE_CW20_ADDRESS
    /\ tcall.op = "instantiate"
           => /\ tres.ret = "Ok"
              /\ store[TOKEN_ITEM_KEY] = <<StoredString(tcall.arg.item_key)>>
              /\ OneSubMsg(tres.resp,
                           IF tcall.arg.init_info.tag = "Osmosis"
                           THEN REPLY_SAVE_OSMOSIS_DENOM ELSE REPLY_SAVE_CW20_ADDRESS)
    /\ tcall.op = "osmosis_instantiate_msg"
           => tres.ret = "Ok" /\ OneSubMsg(tres.resp, REPLY_SAVE_OSMOSIS_DENOM)
    /\ tcall.op = "cw20_instantiate_msg"
           => tres.ret = "Ok" /\ OneSubMsg(tres.resp, REPLY_SAVE_CW20_ADDRESS)

\* a request for a contract token under key k2 was made while the slot still
\* named k1, the key of an earlier request
C16_Witness ==
    /\ tcall.op = "instantiate"
    /\ tcall.arg.item_key = "k2"
    /\ tcall.arg.init_info.tag = "Cw20"
    /\ tbefore[TOKEN_ITEM_KEY] = <<StoredString("k1")>>
    /\ store[TOKEN_ITEM_KEY] = <<StoredString("k2")>>
    /\ tres.resp[1].id = REPLY_SAVE_CW20_ADDRESS

\* The three reply handlers
ResolveOps == {"reply_save_token", "save_asset", "save_cw20_address"}

\* The errors the handlers have for an id they do not know
UnknownTagErrors == {"invalid reply id", "InvalidReplyId"}

KnownTag(id) == id \in {REPLY_SAVE_OSMOSIS_DENOM, REPLY_SAVE_CW20_ADDRESS}

\* C17 as claimed: a reply whose id is neither 14508 nor 14509 is never taken
\* for a success: each of reply_save_token, save_asset and save_cw20_address
\* returns the unknown-tag error for it, whatever the reply holds and whatever
\* the storage holds, and writes nothing.
C17_UnknownTag_Claimed ==
    (tcall.op \in ResolveOps /\ ~KnownTag(tcall.arg.reply.id))
        => /\ tres.ret = "Err"
           /\ tres.err \in UnknownTagErrors
           /\ store = tbefore

\* what the three handlers do keep for such a reply: nothing is written
C17_UnknownTagWritesNothing ==
    (tcall.op \in ResolveOps /\ ~KnownTag(tcall.arg.reply.id)) => store = tbefore

\* C18: when the reply given to reply_save_token carries a failed result,
\* reply_save_token returns an error with the platform's failure message
\* unchanged and writes nothing to storage: a result key that was unset stays
\* unset.  (save_asset and save_cw20_address do the same for a failed reply
\* that carries their own tag.)
C18_FailedReply ==
    (/\ tcall.op \in ResolveOps
     /\ ~tcall.arg.reply.result.ok
     /\ \/ tcall.op = "reply_save_token"
        \/ tcall.op = "save_asset" /\ tcall.arg.reply.id = REPLY_SAVE_OSMOSIS_DENOM
        \/ tcall.op = "save_cw20_address" /\ tcall.arg.reply.id = REPLY_SAVE_CW20_ADDRESS)
        => /\ tres.ret = "Err"
           /\ tres.err = tcall.arg.reply.result.error
           /\ store = tbefore
           /\ \A k \in ItemKeys : tbefore[k] = <<>> => store[k] = <<>>

\* a request for key k1 was pending, nothing was stored under k1, and the
\* reply to the request came back failed
C18_Witness ==
    /\ tcall.op = "reply_save_token"
    /\ tcall.arg.reply = Reply(REPLY_SAVE_OSMOSIS_DENOM, SubMsgErr("out of gas"))
    /\ tbefore[TOKEN_ITEM_KEY] = <<StoredString("k1")>>
    /\ tbefore["k1"] = <<>>
    /\ store["k1"] = <<>>
    /\ tres.err = "out of gas"

\* The event and the attribute each backend answers with
ExpectedEvent(id) == IF id = REPLY_SAVE_OSMOSIS_DENOM THEN "create_denom" ELSE "instantiate"
ExpectedAttr(id) == IF id = REPLY_SAVE_OSMOSIS_DENOM THEN "new_token_denom" ELSE "_contract_address"

\* No event of type ty in the payload carries an attribute called name (there
\* may be no event of that type at all)
Lacks(events, ty, name) ==
    \A k \in 1..Len(events) :
        events[k].ty = ty => FindAttr(events[k].attributes, name) = 0

\* The errors of the parsers for a missing event or attribute
MalformedErrors ==
    {"cannot find instantiate event", "cannot find _contract_address attribute",
     "cannot find create_denom event", "cannot find new_token_denom attribute"}

\* A handler was called with a successful reply that carries a tag the
\* handler knows; reply_save_token after a request (the pending key is set)
ResolvedKnown ==
    /\ tcall.op \in ResolveOps
    /\ tcall.arg.reply.result.ok
    /\ \/ tcall.op = "reply_save_token" /\ KnownTag(tcall.arg.reply.id)
                                        /\ LoadsString(tbefore, TOKEN_ITEM_KEY)
       \/ tcall.op = "save_asset" /\ tcall.arg.reply.id = REPLY_SAVE_OSMOSIS_DENOM
       \/ tcall.op = "save_cw20_address" /\ tcall.arg.reply.id = REPLY_SAVE_CW20_ADDRESS

\* C19 as claimed: a successful reply with a known tag whose payload lacks the
\* expected event (create_denom for 14508, instantiate for 14509), or whose
\* event lacks the expected attribute, gets a malformed-callback error and no
\* storage write.
C19_MalformedCallback_Claimed ==
    (/\ ResolvedKnown
     /\ Lacks(tcall.arg.reply.result.events,
              ExpectedEvent(tcall.arg.reply.id), ExpectedAttr(tcall.arg.reply.id)))
        => /\ tres.ret = "Err"
           /\ tres.err \in MalformedErrors
           /\ store = tbefore

\* The event type each handler's parser looks for in fact
ParsedEvent(op, id) ==
    IF op = "reply_save_token" /\ id = REPLY_SAVE_OSMOSIS_DENOM THEN "instantiate"
    ELSE ExpectedEvent(id)

\* what the code does keep: a payload without the attribute in the events the
\* handler's own parser looks at gets a malformed-callback error and no write
C19_MalformedForParser ==
    (/\ ResolvedKnown
     /\ Lacks(tcall.arg.reply.result.events,
              ParsedEvent(tcall.op, tcall.arg.reply.id), ExpectedAttr(tcall.arg.reply.id)))
        => /\ tres.ret = "Err"
           /\ tres.err \in MalformedErrors
           /\ store = tbefore

\* The payload's first event of type ty carries an attribute called name
Carries(events, ty, name) ==
    /\ FindEvent(events, ty) # 0
    /\ FindAttr(events[FindEvent(events, ty)].attributes, name) # 0

\* The value of that attribute
Carried(events, ty, name) ==
    LET e == events[FindEvent(events, ty)]
    IN  e.attributes[FindAttr(e.attributes, name)].value

\* The storage key the handler writes to: the pending key for reply_save_token,
\* the caller's item for the other two
ResultKey == IF tcall.op = "reply_save_token" THEN tbefore[TOKEN_ITEM_KEY][1].s ELSE tcall.arg.item

\* The variants of the two backends, in the type the handler stores
NativeVariant(op, denom) == IF op = "reply_save_token" THEN Token_Osmosis(denom) ELSE Native(denom)
ContractVariant(op, addr) == IF op = "reply_save_token" THEN Token_Cw20(addr) ELSE Cw20(addr)

\* C20 as claimed: for a successful reply tagged 14508 the handler takes the
\* new_token_denom attribute of the create_denom event and stores the native
\* variant with that denom; for a successful reply tagged 14509 it takes the
\* _contract_address attribute of the instantiate event and stores the
\* contract variant with that address (an address the validator accepts).
C20_EventByBackend_Claimed ==
    LET reply == tcall.arg.reply
        events == reply.result.events
    IN  /\ (/\ ResolvedKnown
            /\ reply.id = REPLY_SAVE_OSMOSIS_DENOM
            /\ Carries(events, "create_denom", "new_token_denom"))
               => /\ tres.ret = "Ok"
                  /\ store[ResultKey] =
                         <<NativeVariant(tcall.op, Carried(events, "create_denom", "new_token_denom"))>>
        /\ (/\ ResolvedKnown
            /\ reply.id = REPLY_SAVE_CW20_ADDRESS
            /\ Carries(events, "instantiate", "_contract_address")
            /\ Carried(events, "instantiate", "_contract_address") \in api)
               => /\ tres.ret = "Ok"
                  /\ store[ResultKey] =
                         <<ContractVariant(tcall.op, Carried(events, "instantiate", "_contract_address"))>>

\* what the code does keep: the same with reply_save_token left out of the
\* ledger-denom half
C20_EventByBackendButToken ==
    LET reply == tcall.arg.reply
        events == reply.result.events
    IN  /\ (/\ ResolvedKnown
            /\ tcall.op = "save_asset"
            /\ Carries(events, "create_denom", "new_token_denom"))
               => /\ tres.ret = "Ok"
                  /\ store[ResultKey] =
                         <<Native(Carried(events, "create_denom", "new_token_denom"))>>
        /\ (/\ ResolvedKnown
            /\ reply.id = REPLY_SAVE_CW20_ADDRESS
            /\ Carries(events, "instantiate", "_contract_address")
            /\ Carried(events, "instantiate", "_contract_address") \in api)
               => /\ tres.ret = "Ok"
                  /\ store[ResultKey] =
                         <<ContractVariant(tcall.op, Carried(events, "instantiate", "_contract_address"))>>

\* reply_save_token has returned Ok
TokenResolved == tcall.op = "reply_save_token" /\ tres.ret = "Ok"

\* The Token a successful reply_save_token made of its reply: the value of
\* the attribute its parser read, in the variant of the reply's tag
ResultToken ==
    LET events == tcall.arg.reply.result.events
    IN  IF tcall.arg.reply.id = REPLY_SAVE_OSMOSIS_DENOM
        THEN Token_Osmosis(Carried(events, "instantiate", "new_token_denom"))
        ELSE Token_Cw20(Carried(events, "instantiate", "_contract_address"))

\* C21 as claimed: after request(spec, k) and a successful resolve, the entry
\* named k holds the resulting token, resolve has written no entry other than
\* k, and in particular the pending-key slot is as it was.
C21_ResolveWritesOnlyKey_Claimed ==
    TokenResolved
        => /\ store[ResultKey] = <<ResultToken>>
           /\ \A j \in StoreKeys \ {ResultKey} : store[j] = tbefore[j]
           /\ store[TOKEN_ITEM_KEY] = tbefore[TOKEN_ITEM_KEY]

\* C21 (amended): after request(spec, k) and a successful resolve, the entry
\* named k holds the resulting token and resolve has written no entry other
\* than k; the pending-key slot is as it was unless k is the slot's own name.
C21_ResolveWritesOnlyKey ==
    TokenResolved
        => /\ store[ResultKey] = <<ResultToken>>
           /\ \A j \in StoreKeys \ {ResultKey} : store[j] = tbefore[j]
           /\ ResultKey # TOKEN_ITEM_KEY => store[TOKEN_ITEM_KEY] = tbefore[TOKEN_ITEM_KEY]

\* a ledger-denom reply was resolved into k2 while k1 held an earlier result
C21_Witness ==
    /\ TokenResolved
    /\ tcall.arg.reply.id = REPLY_SAVE_OSMOSIS_DENOM
    /\ ResultKey = "k2"
    /\ tbefore["k2"] = <<>>
    /\ tbefore["k1"] # <<>>
    /\ store["k1"] = tbefore["k1"]
    /\ store["k2"] = <<Token_Osmosis(StrA)>>

\* C22 as claimed: the provisioner moves Idle -> Requested -> Resolved or
\* Requested -> Failed, and Resolved and Failed are terminal: once
\* reply_save_token has returned for a request, with a result or with an
\* error, no later reply_save_token changes the stored result (unless
\* instantiate is called again, which starts a new request).
C22_TerminalPhases_Claimed ==
    (tcall.op = "reply_save_token" /\ tcall.phase \in {"Resolved", "Failed"})
        => store = tbefore

\* the phases do follow the calls in the order of the state machine: a result
\* is only ever stored after a request
C22_ResultOnlyAfterRequest ==
    (tcall.op = "reply_save_token" /\ store # tbefore) => tcall.phase # "Idle"

\* A successful reply with a tag of the provisioner whose first event of the
\* type ty(id) carries the backend's attribute, with a contract address the
\* validator accepts
WellFormedFor(reply, ty(_)) ==
    /\ reply.result.ok
    /\ KnownTag(reply.id)
    /\ Carries(reply.result.events, ty(reply.id), ExpectedAttr(reply.id))
    /\ reply.id = REPLY_SAVE_CW20_ADDRESS
           => Carried(reply.result.events, ty(reply.id), ExpectedAttr(reply.id)) \in api

\* The event type reply_save_token's parsers look for
TokenParsedEvent(id) == ParsedEvent("reply_save_token", id)

\* The Token a well-formed reply stands for
ExpectedToken(reply) ==
    LET v == Carried(reply.result.events, ExpectedEvent(reply.id), ExpectedAttr(reply.id))
    IN  IF reply.id = REPLY_SAVE_OSMOSIS_DENOM THEN Token_Osmosis(v) ELSE Token_Cw20(v)

\* C23 as claimed: resolve run twice after one request, each time with a
\* successful well-formed reply, succeeds both times, and the stored result
\* after the second run is the identifier carried by the second reply.
C23_ResolveTwice_Claimed ==
    (/\ tcall.op = "reply_save_token"
     /\ tcall.phase \in {"Requested", "Resolved"}
     /\ WellFormedFor(tcall.arg.reply, ExpectedEvent))
        => /\ tres.ret = "Ok"
           /\ store[ResultKey] = <<ExpectedToken(tcall.arg.reply)>>

\* what the code does keep: for the replies its parsers take, and while the
\* pending-key slot still holds a key, a second run succeeds and overwrites
\* the result of the first
C23_ResolveTwiceAsParsed ==
    (/\ tcall.op = "reply_save_token"
     /\ tcall.phase \in {"Requested", "Resolved"}
     /\ LoadsString(tbefore, TOKEN_ITEM_KEY)
     /\ WellFormedFor(tcall.arg.reply, TokenParsedEvent))
        => /\ tres.ret = "Ok"
           /\ store[ResultKey] = <<ResultToken>>

\* a second run has replaced the contract token of the first by a denom
C23_Overwritten ==
    /\ tcall.op = "reply_save_token"
    /\ tcall.phase = "Resolved"
    /\ tres.ret = "Ok"
    /\ tbefore["k1"] = <<Token_Cw20(StrA)>>
    /\ store["k1"] = <<Token_Osmosis(StrA)>>


\* The identifier a stored token or asset kind carries
IdentifierOf(t) == IF t.tag = "String" THEN t.s ELSE t.id

\* A response made of an action name and the identifier stored at ResultKey
Confirms(resp) ==
    /\ Len(resp) = 2
    /\ resp[1].key = "action"
    /\ resp[1].value # ""
    /\ store[ResultKey] # <<>>
    /\ resp[2].value = IdentifierOf(store[ResultKey][1])

\* C24 as claimed: every successful resolve returns a response carrying a
\* confirmation record made of an action name and the resulting identifier;
\* no successful resolve returns an empty response.
C24_Confirmation_Claimed ==
    (tcall.op \in ResolveOps /\ tres.ret = "Ok")
        => (tres.resp # <<>> /\ Confirms(tres.resp))

\* what the code does keep: the two handlers that store an AssetInfo confirm
\* a reply of their own tag
C24_ConfirmationOwnTag ==
    (/\ tres.ret = "Ok"
     /\ \/ tcall.op = "save_asset"
        \/ tcall.op = "save_cw20_address" /\ tcall.arg.reply.id = REPLY_SAVE_CW20_ADDRESS)
        => Confirms(tres.resp)

\* reply_save_token has stored a token and returned the empty response
C24_EmptyResponse ==
    /\ TokenResolved
    /\ store[ResultKey] # tbefore[ResultKey]
    /\ tres.resp = <<>>


----------------------------------------------------------------------------
(* Balance queries and transfer messages *)

\* The balances a chain reports: none, one unit, the largest amount
Balances == {0, 1, U128Max}

\* The accounts a balance is asked for
Accounts == RawStrings

\* QueryRequest::Bank(BankQuery::Balance { address, denom })
BankQuery_Balance(address, denom) == [query |-> "bank", address |-> address, denom |-> denom]

\* QueryRequest::Wasm(WasmQuery::Smart { contract_addr, msg: Cw20QueryMsg::Balance { address } })
WasmQuery_Smart(contract_addr, address) ==
    [query |-> "wasm", contract_addr |-> contract_addr, balance_of |-> address]

\* The requests the modelled chain can be sent
QueryRequests ==
    {BankQuery_Balance(a, StrA) : a \in Accounts} \cup {WasmQuery_Smart(StrA, a) : a \in Accounts}

\* What comes back for a request: an error of the chain or of the contract, or
\* the bytes of a JSON text.  A bank module answers with a BalanceResponse
\* object, a cw20 contract with a Cw20 BalanceResponse object; a contract can
\* also answer with a JSON string, the base64 text of such an object
QueryErr(msg) == [json |-> "error", err |-> msg]
JsonBalance(n) == [json |-> "object", balance |-> n]
JsonString(inner) == [json |-> "string", base64 |-> inner]

BankAnswers == {JsonBalance(n) : n \in Balances} \cup {QueryErr("bank query failed")}
WasmAnswers ==
    {JsonBalance(n) : n \in Balances} \cup {JsonString(JsonBalance(n)) : n \in Balances}
        \cup {QueryErr("contract query failed")}

\* A querier is the chain as one invocation sees it: one answer per request
Queriers ==
    {[r \in QueryRequests |-> IF r.query = "bank" THEN b[r.address] ELSE w[r.balance_of]] :
        b \in [Accounts -> BankAnswers], w \in [Accounts -> WasmAnswers]}

\* The outcome of a query: the value, the error, and the requests sent
QOk(val, asked) == [ok |-> TRUE, val |-> val, err |-> "", asked |-> asked]
QErr(err, asked) == [ok |-> FALSE, val |-> 0, err |-> err, asked |-> asked]

\* QuerierWrapper::query::<BalanceResponse>: the answer is parsed as an
\* object with a balance
query_balance_response(querier, request) ==
    LET raw == querier[request]
    IN  IF raw.json = "error" THEN QErr(raw.err, <<request>>)
        ELSE IF raw.json = "object" THEN QOk(raw.balance, <<request>>)
        ELSE QErr("parse error", <<request>>)

\* QuerierWrapper::query_wasm_smart::<Binary> followed by
\* from_binary::<cw20::BalanceResponse>: the answer is parsed as a JSON string
\* of base64 text, and the bytes it stands for as an object with a balance
query_binary_then_balance(querier, request) ==
    LET raw == querier[request]
    IN  IF raw.json = "error" THEN QErr(raw.err, <<request>>)
        ELSE IF raw.json # "string" THEN QErr("parse error", <<request>>)
        ELSE IF raw.base64.json = "object" THEN QOk(raw.base64.balance, <<request>>)
        ELSE QErr("parse error", <<request>>)

\* AssetInfo::query_balance
info_query_balance(i, querier, address) ==
    IF i.tag = "cw20"
    THEN query_balance_response(querier, WasmQuery_Smart(i.id, address))
    ELSE query_balance_response(querier, BankQuery_Balance(address, i.id))

\* Asset::query_balance
asset_query_balance(a, querier, addr) ==
    IF a.info.tag = "cw20"
    THEN query_binary_then_balance(querier, WasmQuery_Smart(a.info.id, addr))
    ELSE query_balance_response(querier, BankQuery_Balance(addr, a.info.id))

\* Token::query_balance: the Cw20 arm binds the token's address under the
\* name of the argument
token_query_balance(t, querier, address) ==
    IF t.tag = "Osmosis"
    THEN query_balance_response(querier, BankQuery_Balance(address, t.id))
    ELSE LET address_1 == t.id
         IN  query_balance_response(querier, WasmQuery_Smart(address_1, address_1))

\* iter.map(|x| Ok(Asset::new(info, q(x)?))).collect::<StdResult<Vec<Asset>>>():
\* r[k] is the outcome of the query for infos[k]; the items are taken in
\* order and the first failure ends the iteration, so that no later query is
\* made
collect_balances(infos, r) ==
    LET failed == {k \in 1..Len(infos) : ~r[k].ok}
        n == IF failed = {} THEN Len(infos)
             ELSE CHOOSE k \in failed : \A j \in failed : k <= j
        asked == [k \in 1..n |-> r[k].asked[1]]
    IN  IF failed = {}
        THEN QOk([k \in 1..Len(infos) |-> Asset(infos[k], r[k].val)], asked)
        ELSE QErr(r[n].err, asked)

\* .map(Into::into): the vector goes through From<B> for AssetList
into_asset_list(c) ==
    IF ~c.ok THEN c
    ELSE LET l == from_iter(<<>>, c.val)
         IN  IF l.ret = "Ok" THEN QOk(l.list, c.asked) ELSE QErr(l.ret, c.asked)

\* AssetList::query_balances
query_balances(l, querier, addr) ==
    into_asset_list(
        collect_balances([k \in 1..Len(l) |-> l[k].info],
                         [k \in 1..Len(l) |-> asset_query_balance(l[k], querier, addr)]))

\* AssetList::query_asset_info_balances
query_asset_info_balances(asset_infos, querier, addr) ==
    into_asset_list(
        collect_balances(asset_infos,
                         [k \in 1..Len(asset_infos) |->
                              info_query_balance(asset_infos[k], querier, addr)]))

\* to_binary: the JSON bytes of a message, kept as the message they encode
to_binary(msg) == [binary |-> msg]

Coin(denom, amount) == [denom |-> denom, amount |-> amount]

\* CosmosMsg::Bank(BankMsg::Send { to_address, amount })
BankMsg_Send(to_address, amount) == [msg |-> "bank/send", to_address |-> to_address, amount |-> amount]

\* Cw20ExecuteMsg::Transfer { recipient, amount }
Cw20ExecuteMsg_Transfer(recipient, amount) ==
    [transfer |-> [recipient |-> recipient, amount |-> amount]]

\* CosmosMsg::Wasm(WasmMsg::Execute { contract_addr, msg, funds })
WasmMsg_Execute(contract_addr, msg, funds) ==
    [msg |-> "wasm/execute", contract_addr |-> contract_addr, exec |-> msg, funds |-> funds]

\* mutant: a contract transfer whose recipient is the token contract
transfer_msg_to_contract(a, to) ==
    IF a.info.tag = "cw20"
    THEN WasmMsg_Execute(a.info.id, to_binary(Cw20ExecuteMsg_Transfer(a.info.id, a.amount)), <<>>)
    ELSE BankMsg_Send(to, <<Coin(a.info.id, a.amount)>>)

\* Asset::transfer_msg
transfer_msg(a, to) ==
    IF a.info.tag = "cw20"
    THEN WasmMsg_Execute(a.info.id, to_binary(Cw20ExecuteMsg_Transfer(to, a.amount)), <<>>)
    ELSE BankMsg_Send(to, <<Coin(a.info.id, a.amount)>>)

\* AssetList::transfer_msgs
transfer_msgs(l, to) == [k \in 1..Len(l) |-> transfer_msg(l[k], to)]

\* enum Token, the values a balance is asked for
Tokens == {Token_Osmosis(StrA), Token_Cw20(StrA)}

\* The vectors of kinds query_asset_info_balances is handed
InfoLists == SeqsUpTo(ListInfos, MaxItems)

\* A call is made once the one before has returned
Ready == call = Idle /\ chk = NoChk

\* A call that reads the observed list without changing it
Read(op, arg, res) == Checked(op, [list |-> list] @@ arg, res)

\* The observed list is built by add
Hold == chk = NoChk /\ Add

QueryBalances ==
    /\ Ready
    /\ \E querier \in Queriers, addr \in Accounts :
           Read("query_balances", [querier |-> querier, addr |-> addr],
                query_balances(list, querier, addr))

\* The associated function and the calls on a value of its own are made while
\* no list is held
QueryAssetInfoBalances ==
    /\ Ready /\ Fresh
    /\ \E asset_infos \in InfoLists, querier \in Queriers, addr \in Accounts :
           Checked("query_asset_info_balances",
                   [asset_infos |-> asset_infos, querier |-> querier, addr |-> addr],
                   query_asset_info_balances(asset_infos, querier, addr))

InfoQueryBalance ==
    /\ Ready /\ Fresh
    /\ \E i \in ListInfos, querier \in Queriers, address \in Accounts :
           Checked("info_query_balance", [self |-> i, querier |-> querier, addr |-> address],
                   info_query_balance(i, querier, address))

AssetQueryBalance ==
    /\ Ready /\ Fresh
    /\ \E a \in Assets, querier \in Queriers, addr \in Accounts :
           Checked("asset_query_balance", [self |-> a, querier |-> querier, addr |-> addr],
                   asset_query_balance(a, querier, addr))

TokenQueryBalance ==
    /\ Ready /\ Fresh
    /\ \E t \in Tokens, querier \in Queriers, address \in Accounts :
           Checked("token_query_balance", [self |-> t, querier |-> querier, addr |-> address],
                   token_query_balance(t, querier, address))

TransferMsg ==
    /\ Ready /\ Fresh
    /\ \E a \in Assets, to \in RawStrings :
           Checked("transfer_msg", [self |-> a, to |-> to],
                   [ok |-> TRUE, val |-> transfer_msg(a, to)])

TransferMsgs ==
    /\ Ready
    /\ \E to \in RawStrings :
           Read("transfer_msgs", [to |-> to], [ok |-> TRUE, val |-> transfer_msgs(list, to)])

NextQuery ==
    \/ Hold \/ Return
    \/ QueryBalances \/ QueryAssetInfoBalances
    \/ InfoQueryBalance \/ AssetQueryBalance \/ TokenQueryBalance
    \/ TransferMsg \/ TransferMsgs
    \/ ChkReturn

SpecQuery == Init /\ [][NextQuery]_vars


----------------------------------------------------------------------------
(* Properties of the balance queries and transfer messages *)

ListQueries == {"query_balances", "query_asset_info_balances"}

\* The kinds a list query was handed, in input order
QueriedInfos ==
    IF chk.op = "query_balances" THEN [k \in 1..Len(chk.arg.list) |-> chk.arg.list[k].info]
    ELSE chk.arg.asset_infos

\* The request that asks the chain for addr's balance of the kind i
BalanceRequest(i, addr) ==
    IF i.tag = "cw20" THEN WasmQuery_Smart(i.id, addr) ELSE BankQuery_Balance(addr, i.id)

\* The chain's answer about addr's balance of i: a balance response carries
\* the live balance, anything else is a failed query
LiveAnswer(i) == chk.arg.querier[BalanceRequest(i, chk.arg.addr)]
QueryFails(i) == LiveAnswer(i).json # "object"
LiveBalance(i) == LiveAnswer(i).balance
FailureOf(i) == IF LiveAnswer(i).json = "error" THEN LiveAnswer(i).err ELSE "parse error"

\* The items of s at their first occurrence, in order
FirstOccurrences(s) ==
    LET idx == {k \in 1..Len(s) : \A j \in 1..(k - 1) : s[j] # s[k]}
        nth(j) == CHOOSE k \in idx : Cardinality({i \in idx : i < k}) = j - 1
    IN  [j \in 1..Cardinality(idx) |-> s[nth(j)]]

\* C25 as claimed: query_balances and query_asset_info_balances return a new
\* AssetList that has, for each asset kind of the input and in input order, an
\* element whose amount is the queried live balance of the given address; they
\* fail with the first failing query's error.
C25_QueryBalances_Claimed ==
    chk.op \in ListQueries =>
        LET infos == QueriedInfos
            failing == {k \in 1..Len(infos) : QueryFails(infos[k])}
            kinds == FirstOccurrences(infos)
        IN  IF failing = {}
            THEN /\ chk.res.ok
                 /\ chk.res.val = [j \in 1..Len(kinds) |-> Asset(kinds[j], LiveBalance(kinds[j]))]
            ELSE /\ ~chk.res.ok
                 /\ chk.res.err = FailureOf(infos[CHOOSE k \in failing : \A j \in failing : k <= j])

\* what the code does keep: a result has the kinds whose balance query it
\* could read and whose balance is not zero, once each and in input order
C25_QueriedKindsInOrder ==
    (chk.op \in ListQueries /\ chk.res.ok) =>
        LET kinds == FirstOccurrences(QueriedInfos)
            res == chk.res.val
        IN  /\ \A k \in 1..Len(res) : res[k].amount # 0
            /\ [k \in 1..Len(res) |-> res[k].info]
                   = SelectSeq(kinds, LAMBDA i : \E k \in 1..Len(res) : res[k].info = i)
            /\ chk.op = "query_asset_info_balances"
                   => \A i \in ListInfos :
                          /\ (\E k \in 1..Len(kinds) : kinds[k] = i) /\ LiveBalance(i) # 0
                                 => \E k \in 1..Len(res) : res[k].info = i
                          /\ Cardinality({k \in 1..Len(QueriedInfos) : QueriedInfos[k] = i}) = 1
                                 => \A k \in 1..Len(res) :
                                        res[k].info = i => res[k].amount = LiveBalance(i)

\* a kind asked twice is reported with twice the balance
C25_DoubleBalance ==
    /\ chk.op = "query_asset_info_balances"
    /\ chk.arg.asset_infos = <<Native(StrA), Native(StrA)>>
    /\ ~QueryFails(Native(StrA))
    /\ LiveBalance(Native(StrA)) = 1
    /\ chk.res.ok
    /\ chk.res.val = <<Asset(Native(StrA), 2)>>

\* a kind with no balance has no element in the result
C25_ZeroDropped ==
    /\ chk.op = "query_asset_info_balances"
    /\ chk.arg.asset_infos = <<Native(StrA)>>
    /\ ~QueryFails(Native(StrA))
    /\ LiveBalance(Native(StrA)) = 0
    /\ chk.res.ok
    /\ chk.res.val = <<>>

\* a held contract token whose contract answers with a balance response makes
\* query_balances fail
C25_ContractBalanceUnread ==
    /\ chk.op = "query_balances"
    /\ chk.arg.list = <<Asset(Cw20(StrA), 1)>>
    /\ ~QueryFails(Cw20(StrA))
    /\ ~chk.res.ok


BalanceQueries == {"info_query_balance", "asset_query_balance", "token_query_balance"}

\* The kind a balance query was made on (a Token names a denom or a contract)
QueriedKind ==
    IF chk.op = "asset_query_balance" THEN chk.arg.self.info
    ELSE IF chk.op = "info_query_balance" THEN chk.arg.self
    ELSE IF chk.arg.self.tag = "Osmosis" THEN Native(chk.arg.self.id)
    ELSE Cw20(chk.arg.self.id)

\* C26 as claimed: a balance query for account X asks about X: on a contract
\* token at C it asks contract C for the balance of X, on a native token it
\* asks the ledger for X's balance of the denom; for AssetInfo::query_balance,
\* Asset::query_balance and Token::query_balance.
C26_AsksAboutAccount_Claimed ==
    chk.op \in BalanceQueries
        => chk.res.asked = <<BalanceRequest(QueriedKind, chk.arg.addr)>>

\* what the code does keep: AssetInfo::query_balance and Asset::query_balance
\* ask about the account they are given, and Token::query_balance does for a
\* denom
C26_AsksAboutAccountButCw20Token ==
    (/\ chk.op \in BalanceQueries
     /\ ~(chk.op = "token_query_balance" /\ chk.arg.self.tag = "Cw20"))
        => chk.res.asked = <<BalanceRequest(QueriedKind, chk.arg.addr)>>

\* Token::query_balance for account b has asked the contract a for the
\* balance of a
C26_AskedAboutContract ==
    /\ chk.op = "token_query_balance"
    /\ chk.arg.self = Token_Cw20(StrA)
    /\ chk.arg.addr = StrB
    /\ chk.res.asked = <<WasmQuery_Smart(StrA, StrA)>>


\* The message that moves the element a to the recipient: a ledger send of
\* its amount and denom, or an execute message to its token contract
MovesTo(m, a, recipient) ==
    IF a.info.tag = "native"
    THEN /\ m.msg = "bank/send"
         /\ m.to_address = recipient
         /\ m.amount = <<[denom |-> a.info.id, amount |-> a.amount]>>
    ELSE /\ m.msg = "wasm/execute"
         /\ m.contract_addr = a.info.id
         /\ m.exec.binary.transfer = [recipient |-> recipient, amount |-> a.amount]
         /\ m.funds = <<>>

\* C27: transfer_msgs(recipient) returns exactly one message per element of
\* the list, in list order: a ledger send of the element's amount and denom to
\* the recipient for a native element, an execute message to the token
\* contract that transfers the amount to the recipient for a contract element.
C27_TransferMsgs ==
    chk.op = "transfer_msgs" =>
        /\ chk.res.ok
        /\ Len(chk.res.val) = Len(chk.arg.list)
        /\ \A k \in 1..Len(chk.arg.list) : MovesTo(chk.res.val[k], chk.arg.list[k], chk.arg.to)

\* transfer_msgs has returned for a list of a contract token and a native one
C27_Witness ==
    /\ chk.op = "transfer_msgs"
    /\ Len(chk.arg.list) = 2
    /\ chk.arg.list[1].info = Cw20(StrA)
    /\ chk.arg.list[2].info = Native(StrA)
    /\ chk.arg.to = StrB
    /\ Len(chk.res.val) = 2


\* C28 as claimed: every failure of an AssetList operation is returned as an
\* error value and never raised as a panic; in particular, building an
\* AssetList from a sequence in which the amounts of one AssetInfo sum past the
\* largest amount reports the overflow as a returned error.
C28_NoPanic_Claimed == ret # "Panic"

\* what the code does keep: the operations called on a list, and check,
\* return their failures; only the From conversion panics
C28_NoPanicButFrom == call.op # "from" => ret # "Panic"

\* From has panicked on two amounts of one kind that sum past the largest
C28_FromPanicked ==
    /\ call.op = "from"
    /\ call.arg = <<Asset(Native(StrA), U128Max), Asset(Native(StrA), 1)>>
    /\ ret = "Panic"

\* C29: the pending storage key is a single slot shared by all requests:
\* after request(k1) then request(k2) with k1 # k2 and no resolve in between,
\* every following successful resolve, of either tag, writes its result at k2,
\* and the entry k1 is never written.
C29_SharedPendingKey ==
    (/\ tcall.op = "reply_save_token"
     /\ tres.ret = "Ok"
     /\ Len(tcall.requested.keys) = 2
     /\ tcall.requested.keys[1] # tcall.requested.keys[2])
        => /\ store[tcall.requested.keys[2]] = <<ResultToken>>
           /\ store[tcall.requested.keys[1]] = tbefore[tcall.requested.keys[1]]

\* after the requests for k1 and for k2, a second successful resolve has
\* written at k2 again and left k1 unset
C29_Witness ==
    /\ tcall.op = "reply_save_token"
    /\ tres.ret = "Ok"
    /\ tcall.requested = [keys |-> <<"k1", "k2">>, resolved |-> TRUE]
    /\ tbefore["k2"] # <<>>
    /\ store["k2"] # tbefore["k2"]
    /\ store["k1"] = <<>>


\* add(x) has returned on a list without zero amounts, for x.amount > 0
AddedToClean ==
    /\ call.op = "add"
    /\ ret = "Ok"
    /\ call.arg.amount > 0
    /\ before = NonZero(before)

\* deduct(x) has returned on a list without zero amounts, for x.amount > 0
DeductedFromClean ==
    /\ call.op = "deduct"
    /\ ret = "Ok"
    /\ call.arg.amount > 0
    /\ before = NonZero(before)

\* deduct(x) after add(x) gives back the list add(x) was called on
AddThenDeduct == AddedToClean => deduct(list, call.arg) = Ok(before)

\* add(x) after deduct(x) gives back the list deduct(x) was called on, with
\* the entry moved to the end when the deduction emptied it
DeductThenAdd ==
    DeductedFromClean =>
        LET k == FindIdx(before, call.arg.info)
        IN  add(list, call.arg)
                = Ok(IF before[k].amount = call.arg.amount
                     THEN Append(RemoveAt(before, k), before[k])
                     ELSE before)

\* C30 as claimed: for every AssetList L without zero-amount elements and
\* every asset x with x.amount > 0 whose addition does not overflow, add(x)
\* followed by deduct(x) succeeds and leaves a list equal to L; the reverse
\* order, deduct(x) followed by add(x), restores the same amounts but moves
\* the entry to the end of the list when the deduction emptied it.
C30_AddDeductInverse_Claimed == AddThenDeduct /\ DeductThenAdd

\* deduct(x) has emptied the first of two entries of one kind, and add(x)
\* merges x into the second
C30_MergedIntoSecond ==
    /\ DeductedFromClean
    /\ before = <<Asset(Native(StrA), 1), Asset(Native(StrA), 1)>>
    /\ call.arg = Asset(Native(StrA), 1)
    /\ add(list, call.arg) = Ok(<<Asset(Native(StrA), 2)>>)

============================================================================
